---- MODULE Spec2Model ----
(***************************************************************************)
(* A model of janitor.functions.summarise.summarise: one call of the       *)
(* function, from the argument check to the returned table or the raised   *)
(* exception.  Tables are modelled by their row labels and their column    *)
(* labels (a column label is the tuple of its header levels), which is     *)
(* what the renaming, the padding and the concatenation act on.            *)
(***************************************************************************)
EXTENDS Integers, Sequences, FiniteSets, TLC

VARIABLES
    args,        \* *args: the raw aggregation tuples of the call
    by,          \* the by argument
    dataDepth,   \* df.columns.nlevels of the dataset
    pc,          \* position in the body of summarise
    num,         \* index of the normalising loop (enumerate(args))
    aggs,        \* the normalised requests
    by_is_true,  \* the flag of the same name
    val,         \* what aggregations run on: the frame or the groupby handle
    k,           \* number of requests the executing loop has finished
    aggs_,       \* the outputs collected for the assembling step
    aggCalls,    \* invocations of .agg / .pipe so far
    result,      \* the returned value
    err          \* the raised exception

vars == <<args, by, dataDepth, pc, num, aggs, by_is_true, val, k, aggs_,
          aggCalls, result, err>>

-----------------------------------------------------------------------------
(* Bounds of the model *)

MaxArgs == 2

MaxDataDepth == 2

-----------------------------------------------------------------------------
(* Python values of the inputs *)

\* elements a func may hold: pandas string functions, callables, a number
StrFuncs == {"mean", "foo", "describe"}

Callables == {"np_sum", "f", "g", "h"}

IsStr(e) == e \in StrFuncs

IsCallable(e) == e \in Callables

\* names: None, a string, the empty string, a non-empty list, the empty list
Truthy(name) == name \in {"nm", "ListNm"}

IsHashable(name) == name \in {"None", "nm", "EmptyStr"}

Bare(e) == [isList |-> FALSE, elems |-> <<e>>]

List(s) == [isList |-> TRUE, elems |-> s]

Tuple2(c, fn) ==
    [isTuple |-> TRUE, arity |-> 2, col |-> c, func |-> fn, name |-> "None"]

Tuple3(c, fn, nm) ==
    [isTuple |-> TRUE, arity |-> 3, col |-> c, func |-> fn, name |-> nm]

\* a tuple of another length, or a value that is no tuple
Odd(isT, n) ==
    [isTuple |-> isT, arity |-> n, col |-> "a", func |-> Bare("mean"),
     name |-> "None"]

Funcs ==
    {Bare("mean"), Bare("foo"), Bare("describe"), Bare("f"), Bare("h"),
     Bare("5"), List(<<"mean", "describe">>), List(<<"describe", "mean">>),
     List(<<"f", "g">>), List(<<"np_sum">>), List(<<"5">>), List(<<>>)}

RawArgs ==
    {Tuple2("a", fn) : fn \in Funcs}
    \cup {Tuple2("ab", Bare("mean")), Tuple2("zz", Bare("mean"))}
    \cup {Tuple3("a", Bare("mean"), nm) :
            nm \in {"nm", "EmptyStr", "ListNm", "EmptyList"}}
    \cup {Tuple3("a", fn, "nm") :
            fn \in {Bare("describe"), Bare("f"), List(<<"f", "g">>)}}
    \cup {Tuple3("ab", Bare("mean"), "nm")}
    \cup {Odd(FALSE, 0), Odd(TRUE, 1), Odd(TRUE, 4)}

Batches == UNION {[1..n -> RawArgs] : n \in 0..MaxArgs}

\* by: None, an empty list, a list of columns, a dict of groupby arguments,
\* a name that is no column
ByValues == {"None", "empty", "cols", "dict", "missing"}

\* line 158: the truth value of by
ByTruthy(b) == b \notin {"None", "empty"}

-----------------------------------------------------------------------------
(* Helpers of the call *)

\* janitor.utils.check on the tuple argument: a TypeError unless a tuple
CheckTuple(arg) == arg.isTuple

\* lines 141-142: a str or a callable is wrapped into a list
WrapFunc(fn) ==
    IF ~fn.isList /\ (IsStr(fn.elems[1]) \/ IsCallable(fn.elems[1]))
    THEN List(fn.elems)
    ELSE fn

\* lines 143-147: check(func, [str, callable, list]) looks at func itself
CheckFunc(fn) ==
    fn.isList \/ IsStr(fn.elems[1]) \/ IsCallable(fn.elems[1])

\* lines 148-153: the name is checked only when it is truthy
CheckName(name) == Truthy(name) => IsHashable(name)

\* get_index_labels, then [out] / out.tolist(): the ordered list of names
ResolveCols(c) ==
    CASE c = "a" -> <<"a">>
      [] c = "ab" -> <<"a", "b">>
      [] OTHER -> <<c>>

\* val[out]: a KeyError when a name is no column of the dataset
ColumnsExist(cols) == \A i \in 1..Len(cols) : cols[i] \in {"a", "b"}

-----------------------------------------------------------------------------
(* Tables *)

GroupKeys == <<"g1", "g2">>

DescribeStats ==
    <<"count", "mean", "std", "min", "25%", "50%", "75%", "max">>

\* the header label of dataset column c
ColLabel(c, depth) == [i \in 1..depth |-> IF i = 1 THEN c ELSE "sub"]

Table(rows, cols, r, j) ==
    [kind |-> "table", rows |-> rows, cols |-> cols, req |-> r, fn |-> j]

\* a value without .columns: a Series or a scalar
Value(r, j) ==
    [kind |-> "value", rows |-> <<>>, cols |-> <<>>, req |-> r, fn |-> j]

\* a column name of the resolved list, left in out
Label(c, r, j) ==
    [kind |-> "label", rows |-> <<>>, cols |-> <<<<c>>>>, req |-> r, fn |-> j]

Unset == [kind |-> "unset", rows |-> <<>>, cols |-> <<>>, req |-> 0, fn |-> 0]

IsTable(x) == x.kind = "table"

nlevels(frame) == Len(frame.cols[1])

RECURSIVE Flatten(_)
Flatten(ss) == IF ss = <<>> THEN <<>> ELSE Head(ss) \o Flatten(Tail(ss))

\* the labels of s, each once, in order of first appearance
RECURSIVE Dedup(_)
Dedup(s) ==
    IF s = <<>> THEN <<>>
    ELSE LET front == Dedup(SubSeq(s, 1, Len(s) - 1))
             last == s[Len(s)]
         IN IF \E i \in 1..Len(front) : front[i] = last
            THEN front
            ELSE Append(front, last)

\* view.agg(list of functions): one row per function on a frame; one row
\* per group and one column per (column, function) on a groupby
AggList(grouped, cols, funcs, depth, r) ==
    IF grouped
    THEN Table(GroupKeys,
               Flatten([i \in 1..Len(cols) |->
                          [j \in 1..Len(funcs) |->
                             Append(ColLabel(cols[i], depth), funcs[j])]]),
               r, 0)
    ELSE Table(funcs, [i \in 1..Len(cols) |-> ColLabel(cols[i], depth)], r, 0)

\* view.agg("describe")
AggDescribe(grouped, cols, depth, r) ==
    AggList(grouped, cols, DescribeStats, depth, r)

\* what view.agg(funcs) does: "ok", or the exception it raises; the first
\* function that cannot be applied decides
RECURSIVE AggOutcome(_)
AggOutcome(funcs) ==
    IF funcs = <<>> THEN "ok"
    ELSE CASE Head(funcs) \in {"mean", "np_sum"} -> AggOutcome(Tail(funcs))
           [] Head(funcs) = "5" -> "TypeError"
           [] OTHER -> "AttributeError"

\* view.pipe(func) for the callables of the model
Pipe(func, grouped, cols, depth, r, j) ==
    LET rows == IF grouped THEN GroupKeys ELSE <<func>>
    IN CASE func = "f" -> Table(rows, <<<<cols[1]>>>>, r, j)
         [] func = "g" -> Table(rows, <<<<cols[1], func, "x">>>>, r, j)
         [] func = "np_sum" ->
              Table(rows, [i \in 1..Len(cols) |-> ColLabel(cols[i], depth)],
                    r, j)
         [] OTHER -> Value(r, j)

-----------------------------------------------------------------------------
(* The assembling step, lines 195-216 *)

\* line 196: the set of header depths of the collected frames
no_of_levels(frames) == {nlevels(frames[i]) : i \in 1..Len(frames)}

\* line 199: the depth frames are padded to
len_no_of_levels(frames) == Cardinality(no_of_levels(frames))

\* lines 201-210: levels of empty labels appended to a shallower header
PadFrame(frame, target) ==
    IF nlevels(frame) < target
    THEN [frame EXCEPT !.cols =
            [c \in 1..Len(frame.cols) |->
               frame.cols[c] \o [n \in 1..(target - nlevels(frame)) |-> ""]]]
    ELSE frame

\* lines 197-212
PadAll(frames) ==
    IF Cardinality(no_of_levels(frames)) > 1
    THEN [i \in 1..Len(frames) |->
            PadFrame(frames[i], len_no_of_levels(frames))]
    ELSE frames

\* ConcatAxis ignoring by_is_true
ConcatAxisStacked(grouping) == 0

\* lines 213-215: the axis of pd.concat
ConcatAxis(grouping) == IF grouping THEN 1 ELSE 0

\* pd.concat: side by side on axis 1 (columns follow one another, rows are
\* the union of the indexes), stacked on axis 0
Concat(frames, axis) ==
    LET allRows == Flatten([i \in 1..Len(frames) |-> frames[i].rows])
        allCols == Flatten([i \in 1..Len(frames) |-> frames[i].cols])
    IN IF axis = 1
       THEN Table(Dedup(allRows), allCols, 0, 0)
       ELSE Table(allRows, Dedup(allCols), 0, 0)

-----------------------------------------------------------------------------
(* The exception raised: its class, the position its message names (-1 when
   it names none) and the step that raised it *)

NoErr == [kind |-> "none", pos |-> -1, stage |-> "none"]

Raise(kind, pos, stage) == [kind |-> kind, pos |-> pos, stage |-> stage]

Init ==
    /\ args \in Batches
    /\ by \in ByValues
    /\ dataDepth \in 1..MaxDataDepth
    /\ pc = "start"
    /\ num = 0
    /\ aggs = <<>>
    /\ by_is_true = FALSE
    /\ val = "unset"
    /\ k = 0
    /\ aggs_ = <<>>
    /\ aggCalls = 0
    /\ result = Unset
    /\ err = NoErr

\* CheckArgs without the test of lines 123-124
CheckArgsNoEmptyTest ==
    /\ pc = "start"
    /\ pc' = "normalize"
    /\ UNCHANGED <<args, by, dataDepth, num, aggs, by_is_true, val, k, aggs_,
                   aggCalls, result, err>>

\* lines 123-125
CheckArgs ==
    /\ pc = "start"
    /\ IF args = <<>>
       THEN /\ pc' = "raised"
            /\ err' = Raise("ValueError", -1, "normalize")
       ELSE /\ pc' = "normalize"
            /\ err' = err
    /\ UNCHANGED <<args, by, dataDepth, num, aggs, by_is_true, val, k, aggs_,
                   aggCalls, result>>

\* NormalizeError without the test of lines 134-138
NormalizeErrorNoMaximum(arg) ==
    CASE ~CheckTuple(arg) -> Raise("TypeError", -1, "normalize")
      [] arg.arity < 2 -> Raise("ValueError", num, "normalize")
      [] ~CheckFunc(WrapFunc(arg.func)) -> Raise("TypeError", num, "normalize")
      [] ~CheckName(arg.name) -> Raise("TypeError", num, "normalize")
      [] OTHER -> NoErr

\* NormalizeError without the check of lines 148-153
NormalizeErrorNoNameCheck(arg) ==
    CASE ~CheckTuple(arg) -> Raise("TypeError", -1, "normalize")
      [] arg.arity < 2 -> Raise("ValueError", num, "normalize")
      [] arg.arity > 3 -> Raise("ValueError", num, "normalize")
      [] ~CheckFunc(WrapFunc(arg.func)) -> Raise("TypeError", num, "normalize")
      [] OTHER -> NoErr

\* lines 126-155: one pass of the loop over enumerate(args)
NormalizeError(arg) ==
    CASE ~CheckTuple(arg) -> Raise("TypeError", -1, "normalize")
      [] arg.arity < 2 -> Raise("ValueError", num, "normalize")
      [] arg.arity > 3 -> Raise("ValueError", num, "normalize")
      [] ~CheckFunc(WrapFunc(arg.func)) -> Raise("TypeError", num, "normalize")
      [] ~CheckName(arg.name) -> Raise("TypeError", num, "normalize")
      [] OTHER -> NoErr

NormalizeArg ==
    /\ pc = "normalize"
    /\ num < Len(args)
    /\ LET arg == args[num + 1]
           e == NormalizeError(arg)
       IN IF e # NoErr
          THEN /\ pc' = "raised"
               /\ err' = e
               /\ UNCHANGED <<num, aggs>>
          ELSE /\ aggs' = Append(aggs, [col |-> arg.col,
                                        func |-> WrapFunc(arg.func).elems,
                                        name |-> arg.name])
               /\ num' = num + 1
               /\ pc' = IF num + 1 = Len(args) THEN "group" ELSE "normalize"
               /\ err' = err
    /\ UNCHANGED <<args, by, dataDepth, by_is_true, val, k, aggs_, aggCalls,
                   result>>

\* lines 156-167
ResolveGrouping ==
    /\ pc = "group"
    /\ IF ByTruthy(by)
       THEN /\ by_is_true' = TRUE
            /\ IF by = "dict"
               THEN /\ val' = "groupby"
                    /\ pc' = "execute"
                    /\ err' = err
               ELSE IF by = "missing"
               THEN /\ pc' = "raised"
                    /\ err' = Raise("KeyError", -1, "group")
                    /\ val' = val
               ELSE /\ val' = "groupby"
                    /\ pc' = "execute"
                    /\ err' = err
       ELSE /\ by_is_true' = FALSE
            /\ val' = "df"
            /\ pc' = "execute"
            /\ err' = err
    /\ UNCHANGED <<args, by, dataDepth, num, aggs, k, aggs_, aggCalls,
                   result>>

-----------------------------------------------------------------------------
(* The executing loop, lines 168-194 *)

\* DescribeConflict looking at the first function only
DescribeConflictFirstOnly(func) ==
    Len(func) > 1 /\ func[1] = "describe"

\* line 171
DescribeConflict(func) ==
    (\E i \in 1..Len(func) : func[i] = "describe") /\ Len(func) > 1

AllCallable(func) == \A i \in 1..Len(func) : IsCallable(func[i])

\* out as one object, or out as a Python list of objects
One(x) == [isList |-> FALSE, items |-> <<x>>]

Many(xs) == [isList |-> TRUE, items |-> xs]

\* Fallback applying the first callable only
FallbackFirstOnly(ag, grouped, cols, depth, r) ==
    IF \A i \in 1..Len(ag.func) : IsCallable(ag.func[i])
    THEN [isList |-> FALSE,
          items |-> <<Pipe(ag.func[1], grouped, cols, depth, r, 1)>>]
    ELSE [isList |-> TRUE,
          items |-> [i \in 1..Len(cols) |-> Label(cols[i], r, 0)]]

\* lines 180-184: what the except clause leaves in out
Fallback(ag, grouped, cols, depth, r) ==
    IF AllCallable(ag.func)
    THEN LET outs == [j \in 1..Len(ag.func) |->
                        Pipe(ag.func[j], grouped, cols, depth, r, j)]
         IN IF Len(outs) = 1 THEN One(outs[1]) ELSE Many(outs)
    ELSE Many([i \in 1..Len(cols) |-> Label(cols[i], r, 0)])

\* Rename never applied
RenameSkipped(name, out) == out

\* lines 185-190
Rename(name, out) ==
    IF Truthy(name) /\ ~out.isList /\ IsTable(out.items[1])
       /\ Len(out.items[1].cols) = 1
    THEN One([out.items[1] EXCEPT !.cols = <<<<name>>>>])
    ELSE out

\* lines 191-194
Collect(collected, out) ==
    IF out.isList THEN collected \o out.items
    ELSE Append(collected, out.items[1])

\* lines 169-184 for request r: the exception raised, or out, and the number
\* of .agg / .pipe invocations made
Aggregate(ag, grouped, depth, r) ==
    LET cols == ResolveCols(ag.col)
        none == One(Unset)
    IN CASE DescribeConflict(ag.func) ->
              [err |-> Raise("ValueError", -1, "execute"), out |-> none,
               calls |-> 0]
         [] ~DescribeConflict(ag.func) /\ ag.func = <<>> ->
              [err |-> Raise("IndexError", -1, "execute"), out |-> none,
               calls |-> 0]
         [] OTHER ->
              IF ~ColumnsExist(cols)
              THEN [err |-> Raise("KeyError", -1, "execute"), out |-> none,
                    calls |-> 0]
              ELSE IF ag.func[1] = "describe"
              THEN [err |-> NoErr,
                    out |-> One(AggDescribe(grouped, cols, depth, r)),
                    calls |-> 1]
              ELSE IF AggOutcome(ag.func) = "ok"
              THEN [err |-> NoErr,
                    out |-> One(AggList(grouped, cols, ag.func, depth, r)),
                    calls |-> 1]
              ELSE IF AggOutcome(ag.func) = "AttributeError"
              THEN [err |-> NoErr,
                    out |-> Fallback(ag, grouped, cols, depth, r),
                    calls |-> IF AllCallable(ag.func)
                              THEN 1 + Len(ag.func) ELSE 1]
              ELSE [err |-> Raise(AggOutcome(ag.func), -1, "execute"),
                    out |-> none, calls |-> 1]

ExecuteRequest ==
    /\ pc = "execute"
    /\ k < Len(aggs)
    /\ LET ag == aggs[k + 1]
           got == Aggregate(ag, val = "groupby", dataDepth, k + 1)
       IN /\ aggCalls' = aggCalls + got.calls
          /\ IF got.err # NoErr
             THEN /\ pc' = "raised"
                  /\ err' = got.err
                  /\ UNCHANGED <<k, aggs_>>
             ELSE /\ aggs_' = Collect(aggs_, Rename(ag.name, got.out))
                  /\ k' = k + 1
                  /\ pc' = IF k + 1 = Len(aggs) THEN "assemble" ELSE "execute"
                  /\ err' = err
    /\ UNCHANGED <<args, by, dataDepth, num, aggs, by_is_true, val, result>>

\* lines 195-216
Assemble ==
    /\ pc = "assemble"
    /\ IF Len(aggs_) > 1
       THEN IF \E i \in 1..Len(aggs_) : ~IsTable(aggs_[i])
            THEN /\ pc' = "raised"
                 /\ err' = Raise("AttributeError", -1, "assemble")
                 /\ UNCHANGED <<aggs_, result>>
            ELSE /\ aggs_' = PadAll(aggs_)
                 /\ result' = Concat(PadAll(aggs_), ConcatAxis(by_is_true))
                 /\ pc' = "returned"
                 /\ err' = err
       ELSE /\ result' = aggs_[1]
            /\ pc' = "returned"
            /\ UNCHANGED <<aggs_, err>>
    /\ UNCHANGED <<args, by, dataDepth, num, aggs, by_is_true, val, k,
                   aggCalls>>

Next ==
    \/ CheckArgs
    \/ NormalizeArg
    \/ ResolveGrouping
    \/ ExecuteRequest
    \/ Assemble

Spec == Init /\ [][Next]_vars

-----------------------------------------------------------------------------
(* Vocabulary of the claims *)

Returned == pc = "returned"

Raised == pc = "raised"

\* InvalidArgument: the ValueError / TypeError the function itself raises
\* for a request, as opposed to an exception coming out of pandas
InvalidArgument(e) ==
    \/ e.stage = "normalize" /\ e.kind \in {"ValueError", "TypeError"}
    \/ e.stage = "execute" /\ e.kind = "ValueError"

\* func is a str, a callable or a list
FuncTypeValid(fn) ==
    fn.isList \/ fn.elems[1] \in StrFuncs \cup Callables

\* a list func holding an element that is neither a str nor a callable
BadListElement(fn) ==
    fn.isList /\ \E i \in 1..Len(fn.elems) :
                     fn.elems[i] \notin StrFuncs \cup Callables

\* a name given as a non-empty value that is no hashable label
NameInvalid(name) == name = "ListNm"

ArityOutside(arg) == arg.isTuple /\ ~(arg.arity \in 2..3)

Malformed(arg) ==
    \/ ~arg.isTuple
    \/ ArityOutside(arg)
    \/ ~FuncTypeValid(arg.func)
    \/ NameInvalid(arg.name)

WellFormed(arg) ==
    /\ arg.isTuple
    /\ arg.arity \in 2..3
    /\ FuncTypeValid(arg.func)
    /\ ~BadListElement(arg.func)
    /\ arg.name \in {"None", "nm"}

NothingAggregated == val = "unset" /\ ~by_is_true /\ aggCalls = 0

-----------------------------------------------------------------------------
\* C8: an empty batch of requests fails with InvalidArgument, whatever the
\* dataset and the by argument, and no grouping or aggregation is performed.
C8_EmptyBatchFails ==
    (args = <<>> /\ pc # "start") =>
        /\ Raised
        /\ InvalidArgument(err)
        /\ NothingAggregated
        /\ aggs_ = <<>>
        /\ result = Unset

C8_Witness ==
    args = <<>> /\ Raised /\ by = "cols" /\ dataDepth = MaxDataDepth

\* C7: when the tuple at position i has fewer than 2 or more than 3 elements
\* and every earlier tuple is well formed, the call fails with
\* InvalidArgument, the message names position i, and nothing is returned.
C7_ArityFailsAtPosition ==
    \A i \in 1..Len(args) :
        (ArityOutside(args[i]) /\ \A j \in 1..(i - 1) : WellFormed(args[j]))
        => /\ pc \in {"start", "normalize", "raised"}
           /\ result = Unset
           /\ Raised => (InvalidArgument(err) /\ err.pos = i - 1)

C7_Witness ==
    /\ Len(args) = 2
    /\ WellFormed(args[1])
    /\ args[2].isTuple /\ args[2].arity = 4
    /\ Raised /\ err.pos = 1 /\ err.kind = "ValueError"

C5_ListElementsValidated ==
    \A i \in 1..Len(args) :
        (/\ args[i].isTuple /\ args[i].arity \in 2..3
         /\ BadListElement(args[i].func)
         /\ \A j \in 1..(i - 1) : WellFormed(args[j]))
        => /\ pc \in {"start", "normalize", "raised"}
           /\ NothingAggregated
           /\ Raised => (InvalidArgument(err) /\ err.pos = i - 1)

\* C6: a request whose normalised func holds "describe" and at least one
\* other function, wherever "describe" stands in the list, is never
\* aggregated and the call never returns; when the executing loop reaches
\* it, the call fails with InvalidArgument, also after earlier requests
\* were aggregated.
C6_DescribeConflictFails ==
    \A i \in 1..Len(aggs) :
        (Len(aggs[i].func) > 1
         /\ \E j \in 1..Len(aggs[i].func) : aggs[i].func[j] = "describe")
        => /\ k < i
           /\ pc \notin {"assemble", "returned"}
           /\ result = Unset
           /\ \A p \in 1..Len(aggs_) : aggs_[p].req # i
           /\ (Raised /\ err.stage = "execute" /\ k = i - 1)
                  => (err.kind = "ValueError" /\ InvalidArgument(err))

C6_Witness ==
    /\ Len(aggs) = 2
    /\ aggs[2].func = <<"mean", "describe">>
    /\ by = "cols"
    /\ k = 1 /\ aggCalls = 1 /\ Len(aggs_) = 1
    /\ Raised /\ err.stage = "execute" /\ err.kind = "ValueError"

\* C1: with two or more collected tables the axis depends on the grouping
\* alone.  With grouping the tables stand side by side: the columns of the
\* result are the columns of all tables in order, and tables with one row
\* per group give one row per group (two single-column tables: exactly two
\* columns).  Without grouping they are stacked: the rows of the result are
\* the rows of all tables in order (two one-row tables: exactly two rows).
C1_MergeAxis ==
    (Returned /\ Len(aggs_) >= 2) =>
        LET allRows == Flatten([i \in 1..Len(aggs_) |-> aggs_[i].rows])
            allCols == Flatten([i \in 1..Len(aggs_) |-> aggs_[i].cols])
        IN IF by \in {"cols", "dict"}
           THEN /\ result.cols = allCols
                /\ (\A i \in 1..Len(aggs_) : aggs_[i].rows = GroupKeys)
                       => result.rows = GroupKeys
           ELSE /\ result.rows = allRows
                /\ Len(result.rows) >= 2

C1_Witness ==
    /\ Returned /\ Len(aggs_) = 2 /\ by = "cols"
    /\ \A i \in 1..2 : Len(aggs_[i].cols) = 1 /\ aggs_[i].rows = GroupKeys
    /\ Len(result.cols) = 2 /\ result.rows = GroupKeys

C1_WitnessStacked ==
    /\ Returned /\ Len(aggs_) = 2 /\ by = "None"
    /\ \A i \in 1..2 : Len(aggs_[i].rows) = 1
    /\ Len(result.rows) = 2

\* C2: when two or more tables are concatenated, all of them have the same
\* header depth, the largest depth any of them had.
C2_UniformDepth ==
    (Returned /\ Len(aggs_) >= 2) =>
        \A i, j \in 1..Len(aggs_) : nlevels(aggs_[i]) = nlevels(aggs_[j])

\* a call with the single request (col, func, name): one resolved column,
\* one function, an explicit name
SingleRequest ==
    /\ Len(args) = 1
    /\ args[1].isTuple /\ args[1].arity = 3
    /\ Len(ResolveCols(args[1].col)) = 1
    /\ Len(args[1].func.elems) = 1

Unsupported(ag) ==
    /\ ag.func # <<>>
    /\ AggOutcome(ag.func) = "AttributeError"
    /\ \E j \in 1..Len(ag.func) : ag.func[j] \in StrFuncs

C4_AllOrNothing ==
    (\E i \in 1..Len(aggs) :
        Unsupported(aggs[i]) /\ aggs[i].func[1] # "describe")
    => /\ ~Returned
       /\ \A p \in 1..Len(aggs_) : IsTable(aggs_[p])

\* C10: a request whose functions are all callables and which .agg does not
\* support contributes one output per callable, in the order of the
\* callables (one output for one callable), and the collected outputs keep
\* the order of the requests.
PathB(ag) ==
    /\ ag.func # <<>>
    /\ \A j \in 1..Len(ag.func) : ag.func[j] \in Callables
    /\ AggOutcome(ag.func) = "AttributeError"

OutputsOf(i) == SelectSeq(aggs_, LAMBDA x : x.req = i)

====
